---- MODULE Spec2Model ----
(***************************************************************************)
(* Orion decision service: Scheduler.main of orion_decision/scheduler.py.  *)
(* One invocation obtains a GitHub event, loads the service catalog, marks *)
(* the services that need a rebuild and creates the Taskcluster build and  *)
(* push tasks.  Services (orion.py) and GithubEvent (git.py) are modelled  *)
(* from the written specification; scheduler.py is modelled from the code. *)
(***************************************************************************)
EXTENDS Integers, Sequences, FiniteSets, TLC

\* ---- bounds of the model ------------------------------------------------
NumUnits == 3       \* services in the repository, named 1..NumUnits
MaxEdges == 2       \* declared dependency entries in the whole catalog
MaxChanged == 1     \* changed paths carried by one event
MaxCrashes == 2     \* crashes CrashManager holds for the monitored tools

\* ---- names, paths, branches --------------------------------------------
Units == 1..NumUnits
\* a dependency name that no service.yaml in the repository declares
Dangling == 0
Names == Units \cup {Dangling}
\* one path inside each unit's build context, and one outside all of them
Outside == 0
Paths == Units \cup {Outside}
Branches == {"master", "dev"}
Actions == {"github-push", "github-pull-request", "github-release"}
\* --push-branch default
push_branch == "master"
\* pull_request attribute of an event that is not a pull request
None == 0

\* ---- the inputs of one invocation --------------------------------------
RECURSIVE EdgeSets(_)
EdgeSets(k) ==
    IF k = 0 THEN {{}}
    ELSE LET S == EdgeSets(k - 1)
         IN  S \cup {s \cup {e} : s \in S, e \in Units \X Names}

\* dependsOn of every unit, as declared in the repository metadata
Catalogs ==
    {[u \in Units |-> {n \in Names : <<u, n>> \in es}] : es \in EdgeSets(MaxEdges)}

RECURSIVE PathSets(_)
PathSets(k) ==
    IF k = 0 THEN {{}}
    ELSE LET S == PathSets(k - 1)
         IN  S \cup {s \cup {p} : s \in S, p \in Paths}

\* GithubEvent.from_taskcluster: the attributes the scheduler reads
GithubEvent ==
    {[action |-> a, branch |-> b,
      pull_request |-> IF a = "github-pull-request" THEN 1 ELSE None,
      commit |-> "c0ffee", force_rebuild |-> f, changed_paths |-> cp] :
        a \in Actions, b \in Branches, f \in BOOLEAN, cp \in PathSets(MaxChanged)}

\* --docker-hub-secret when DOCKER_HUB_SECRET is set
DockerSecret == 1

\* parse_args: the options this model follows, as given on the command line
DefaultArgs == [docker_hub_secret |-> DockerSecret, dry_run |-> FALSE]
AllArgs == [docker_hub_secret : {None, DockerSecret}, dry_run : BOOLEAN]

VARIABLES
    repo,                 \* dependsOn as written in the checkout
    evt,                  \* the GithubEvent of this invocation
    pc,                   \* position in Scheduler.main / create_tasks
    dirty,                \* services whose dirty attribute is set
    idx,                  \* position of the loop over self.services.values()
    should_push,          \* local of create_tasks
    build_tasks_created,  \* local of create_tasks
    push_tasks_created,   \* local of create_tasks
    calls,                \* queue.createTask calls made so far, in order
    raised,               \* exception propagating out of the try block
    cleanups,             \* number of evt.cleanup() calls
    status,               \* shell return code of the invocation
    args,                 \* argparse.Namespace handed to Scheduler.main
    paths_listed          \* number of github_event.list_changed_paths() calls

\* the reduction monitor (grizzly_reduce_monitor/monitor.py)
VARIABLES
    mon_pc,               \* position in ReductionMonitor.run
    dry_run,              \* ReductionMonitor.dry_run
    server,               \* crashes held by CrashManager, in listing order
    quality,              \* testcase quality of each crash in CrashManager
    listing,              \* what _fuzzmanager_get_crashes yields
    pos,                  \* position of _get_unique_crashes in the listing
    seen,                 \* local of _get_unique_crashes
    randomize_crashes,    \* local of _get_unique_crashes, insertion-ordered
    yielded,              \* (sig, reduction) pairs yielded so far
    tc_calls,             \* queue.createTask calls of the monitor
    updates               \* update_testcase_quality calls of the monitor

sched_vars == <<repo, evt, pc, dirty, idx, should_push, build_tasks_created,
                push_tasks_created, calls, raised, cleanups, status, args,
                paths_listed>>

mon_vars == <<mon_pc, dry_run, server, quality, listing, pos, seen,
              randomize_crashes, yielded, tc_calls, updates>>

vars == <<sched_vars, mon_vars>>

\* ---- ServiceCatalog (Services) -----------------------------------------
\* iteration over all units, sorted by name
RECURSIVE SortedSeq(_)
SortedSeq(S) ==
    IF S = {} THEN <<>>
    ELSE LET m == CHOOSE x \in S : \A y \in S : x <= y
         IN  <<m>> \o SortedSeq(S \ {m})

services_values == SortedSeq(Units)

\* a declared dependency name absent from the catalog
HasDangling(deps) == \E u \in Units : \E n \in deps[u] : n \notin Units

RECURSIVE Visit(_, _, _), VisitEach(_, _, _)
\* a traversal with a single visited mark: reaching any marked unit again
\* is reported as a cycle
Visit_two_colour(deps, u, st) ==
    IF st.cycle THEN st
    ELSE IF st.color[u] # "unvisited" THEN [st EXCEPT !.cycle = TRUE]
    ELSE LET st1 == [st EXCEPT !.color[u] = "in-progress"]
         IN  VisitEach(deps, SortedSeq(deps[u]), st1)

\* depth-first traversal with a three-colour mark
Visit(deps, u, st) ==
    IF st.cycle THEN st
    ELSE IF st.color[u] = "in-progress" THEN [st EXCEPT !.cycle = TRUE]
    ELSE IF st.color[u] = "done" THEN st
    ELSE LET st1 == [st EXCEPT !.color[u] = "in-progress"]
             st2 == VisitEach(deps, SortedSeq(deps[u]), st1)
         IN  IF st2.cycle THEN st2 ELSE [st2 EXCEPT !.color[u] = "done"]
VisitEach(deps, seq, st) ==
    IF seq = <<>> THEN st
    ELSE VisitEach(deps, Tail(seq), Visit(deps, Head(seq), st))

HasCycle(deps) ==
    VisitEach(deps, services_values,
              [color |-> [u \in Units |-> "unvisited"], cycle |-> FALSE]).cycle

\* Services(repo.path): succeeds, or fails with CatalogError
LoadOk(deps) == ~HasDangling(deps) /\ ~HasCycle(deps)

\* a unit owns a path if the path lies under its build context
unitsOwningPath(p) == {u \in Units : u = p}

\* a scan that stops at the first unit it marks
Scan_one_per_pass(deps, seq, d) ==
    LET cand == {v \in Units \ d : deps[v] \cap d # {}}
    IN  IF cand = {} THEN d
        ELSE d \cup {CHOOSE v \in cand : \A w \in cand : v <= w}

\* one full scan over all units, in place: a dirty unit dirties its
\* direct dependents
RECURSIVE Scan(_, _, _)
Scan(deps, seq, d) ==
    IF seq = <<>> THEN d
    ELSE LET u == Head(seq)
             d1 == IF u \in d
                   THEN d \cup {v \in Units : u \in deps[v]}
                   ELSE d
         IN  Scan(deps, Tail(seq), d1)

\* a propagator that stops after its first scan
Propagate_single_pass(deps, d) == Scan(deps, services_values, d)

\* repeat the scan until a pass changes no unit
RECURSIVE Propagate(_, _)
Propagate(deps, d) ==
    LET d1 == Scan(deps, services_values, d)
    IN  IF d1 = d THEN d ELSE Propagate(deps, d1)

\* the number of full scans Propagate makes, the last (unchanged) one included
RECURSIVE PropagatePasses(_, _)
PropagatePasses(deps, d) ==
    LET d1 == Scan(deps, services_values, d)
    IN  IF d1 = d THEN 1 ELSE 1 + PropagatePasses(deps, d1)

\* Services.mark_changed_dirty(changed_paths), on the current dirty flags
mark_changed_dirty(deps, d, changed) ==
    Propagate(deps, d \cup UNION {unitsOwningPath(p) : p \in changed})

\* ---- Scheduler ---------------------------------------------------------
\* slugId() of the build task of each service, allocated before the loop
service_build_tasks(u) == u
\* slugId() of the push task of a service, allocated inside the loop
push_task_id(u) == NumUnits + u

\* Scheduler.create_tasks: should_push
ShouldPush(e) == e.branch = push_branch

\* dirty_dep_tasks without the "if self.services[dep].dirty" filter
dirty_dep_tasks_unfiltered(deps, d, u) ==
    {service_build_tasks(dep) : dep \in deps[u]}

\* Scheduler.create_tasks: dirty_dep_tasks
dirty_dep_tasks(deps, d, u) ==
    {service_build_tasks(dep) : dep \in {x \in deps[u] : x \in d}}

\* a push task that copies the dependency list of the build task
push_dependencies_copied(deps, d, u) == dirty_dep_tasks(deps, d, u)

\* Scheduler.create_tasks: "dependencies" of push_task
push_dependencies(deps, d, u) == {service_build_tasks(u)}

\* a handler that logs the failure and falls through to the code after it
reraise_fallthrough(i) == [pc |-> "push", raised |-> "none", idx |-> i]

\* a handler that logs the failure and carries on with the next service
reraise_swallowed(i) == [pc |-> "loop", raised |-> "none", idx |-> i + 1]

\* Scheduler.create_tasks: except TaskclusterFailure: LOG.error(...); raise
reraise(i) == [pc |-> "finally", raised |-> "TaskclusterFailure", idx |-> i]

\* mark_services_for_rebuild without its else branch
rebuild_set_no_else(e, deps, d) ==
    IF e.force_rebuild THEN Units ELSE d

\* mark_services_for_rebuild with the force-rebuild test inverted
rebuild_set_inverted(e, deps, d) ==
    IF ~e.force_rebuild
    THEN Units
    ELSE mark_changed_dirty(deps, d, e.changed_paths)

\* Scheduler.mark_services_for_rebuild: the dirty flags it leaves
rebuild_set(e, deps, d) ==
    IF e.force_rebuild
    THEN Units
    ELSE mark_changed_dirty(deps, d, e.changed_paths)

\* a cleanup placed after the scheduling calls instead of in a finally block
runs_cleanup_on_success(r) == r = "none"

\* Scheduler.main: finally: evt.cleanup(), whatever the try block raised
runs_cleanup(r) == TRUE

\* a main that returns from inside its finally block
return_code_always_zero(r) == 0

\* Scheduler.main: return 0, or the exception leaves the process
return_code(r) == IF r = "none" THEN 0 ELSE 1

\* a mark_services_for_rebuild that fetches the changed paths before the test
lists_changed_paths_hoisted(e) == TRUE

\* Scheduler.mark_services_for_rebuild: list_changed_paths() is called only
\* in the else branch
lists_changed_paths(e) == ~e.force_rebuild

\* Scheduler.create_tasks: the "rev" route of build_task
rev_index(e, u) == <<u, "rev", e.commit>>

\* a build_index that ignores the pull request number
build_index_branch_only(e, u) == <<u, "branch", e.branch>>

\* Scheduler.create_tasks: build_index route
build_index(e, u) ==
    IF e.pull_request # None
    THEN <<u, "pull_request", e.pull_request>>
    ELSE <<u, "branch", e.branch>>

\* the monitor is not part of an orion-decision invocation
MonitorIdle ==
    /\ mon_pc = "idle"
    /\ dry_run = FALSE
    /\ server = <<>>
    /\ quality = <<>>
    /\ listing = <<>>
    /\ pos = 1
    /\ seen = {}
    /\ randomize_crashes = <<>>
    /\ yielded = <<>>
    /\ tc_calls = <<>>
    /\ updates = <<>>

\* Scheduler.main entered with the event obtained
SchedulerStart ==
    /\ repo \in Catalogs
    /\ evt \in GithubEvent
    /\ pc = "start"
    /\ dirty = {}
    /\ idx = 1
    /\ should_push = FALSE
    /\ build_tasks_created = 0
    /\ push_tasks_created = 0
    /\ calls = <<>>
    /\ raised = "none"
    /\ cleanups = 0
    /\ status = -1
    /\ paths_listed = 0

Init ==
    /\ SchedulerStart
    /\ args = DefaultArgs
    /\ MonitorIdle

\* the same invocation under every combination of the command-line options
InitArgs ==
    /\ SchedulerStart
    /\ args \in AllArgs
    /\ MonitorIdle

\* a constructor that notes the catalog error and carries on
SchedulerInit_deferred_error ==
    /\ pc = "start"
    /\ pc' = "constructed"
    /\ raised' = IF LoadOk(repo) THEN raised ELSE "CatalogError"
    /\ UNCHANGED <<repo, evt, dirty, idx, should_push, build_tasks_created,
                   push_tasks_created, calls, cleanups, status>>
    /\ UNCHANGED <<args, paths_listed, mon_vars>>

\* Scheduler.__init__: Services(self.github_event.repo.path)
SchedulerInit ==
    /\ pc = "start"
    /\ IF LoadOk(repo)
       THEN pc' = "constructed" /\ raised' = raised
       ELSE pc' = "finally" /\ raised' = "CatalogError"
    /\ UNCHANGED <<repo, evt, dirty, idx, should_push, build_tasks_created,
                   push_tasks_created, calls, cleanups, status>>
    /\ UNCHANGED <<args, paths_listed, mon_vars>>

\* Scheduler.mark_services_for_rebuild
mark_services_for_rebuild ==
    /\ pc = "constructed"
    /\ dirty' = rebuild_set(evt, repo, dirty)
    /\ paths_listed' = IF lists_changed_paths(evt)
                       THEN paths_listed + 1
                       ELSE paths_listed
    /\ pc' = "marked"
    /\ UNCHANGED <<repo, evt, idx, should_push, build_tasks_created,
                   push_tasks_created, calls, raised, cleanups, status>>
    /\ UNCHANGED <<args, mon_vars>>

\* Scheduler.create_tasks, up to the loop
create_tasks_begin ==
    /\ pc = "marked"
    /\ should_push' = ShouldPush(evt)
    /\ build_tasks_created' = 0
    /\ push_tasks_created' = 0
    /\ idx' = 1
    /\ pc' = "loop"
    /\ UNCHANGED <<repo, evt, dirty, calls, raised, cleanups, status>>
    /\ UNCHANGED <<args, paths_listed, mon_vars>>

\* loop body for a service that is not dirty: continue
skip_service ==
    /\ pc = "loop"
    /\ idx <= Len(services_values)
    /\ services_values[idx] \notin dirty
    /\ idx' = idx + 1
    /\ UNCHANGED <<repo, evt, pc, dirty, should_push, build_tasks_created,
                   push_tasks_created, calls, raised, cleanups, status>>
    /\ UNCHANGED <<args, paths_listed, mon_vars>>

\* loop body for a dirty service: queue.createTask(task_id, build_task)
create_build_task ==
    /\ pc = "loop"
    /\ idx <= Len(services_values)
    /\ services_values[idx] \in dirty
    /\ LET u == services_values[idx] IN
       \E ok \in BOOLEAN :
          /\ calls' = Append(calls,
                 [kind |-> "Build", unit |-> u, id |-> service_build_tasks(u),
                  dependencies |-> dirty_dep_tasks(repo, dirty, u),
                  routes |-> {rev_index(evt, u), build_index(evt, u)},
                  secret |-> None,
                  ok |-> ok])
          /\ IF ok
             THEN /\ build_tasks_created' = build_tasks_created + 1
                  /\ raised' = raised
                  /\ IF should_push
                     THEN pc' = "push" /\ idx' = idx
                     ELSE pc' = "loop" /\ idx' = idx + 1
             ELSE /\ build_tasks_created' = build_tasks_created
                  /\ raised' = reraise(idx).raised
                  /\ pc' = reraise(idx).pc
                  /\ idx' = reraise(idx).idx
    /\ UNCHANGED <<repo, evt, dirty, should_push, push_tasks_created,
                   cleanups, status>>
    /\ UNCHANGED <<args, paths_listed, mon_vars>>

\* loop body, should_push: queue.createTask(task_id, push_task)
create_push_task ==
    /\ pc = "push"
    /\ LET u == services_values[idx] IN
       \E ok \in BOOLEAN :
          /\ calls' = Append(calls,
                 [kind |-> "Publish", unit |-> u, id |-> push_task_id(u),
                  dependencies |-> push_dependencies(repo, dirty, u),
                  routes |-> {},
                  secret |-> args.docker_hub_secret,
                  ok |-> ok])
          /\ IF ok
             THEN /\ push_tasks_created' = push_tasks_created + 1
                  /\ raised' = raised
                  /\ pc' = "loop"
                  /\ idx' = idx + 1
             ELSE /\ push_tasks_created' = push_tasks_created
                  /\ raised' = reraise(idx).raised
                  /\ pc' = reraise(idx).pc
                  /\ idx' = reraise(idx).idx
    /\ UNCHANGED <<repo, evt, dirty, should_push, build_tasks_created,
                   cleanups, status>>
    /\ UNCHANGED <<args, paths_listed, mon_vars>>

\* the loop is exhausted: log the counters and return
create_tasks_end ==
    /\ pc = "loop"
    /\ idx > Len(services_values)
    /\ pc' = "finally"
    /\ UNCHANGED <<repo, evt, dirty, idx, should_push, build_tasks_created,
                   push_tasks_created, calls, raised, cleanups, status>>
    /\ UNCHANGED <<args, paths_listed, mon_vars>>

\* Scheduler.main: finally evt.cleanup(), then return 0 or propagate
main_finally ==
    /\ pc = "finally"
    /\ cleanups' = IF runs_cleanup(raised) THEN cleanups + 1 ELSE cleanups
    /\ status' = return_code(raised)
    /\ pc' = "done"
    /\ UNCHANGED <<repo, evt, dirty, idx, should_push, build_tasks_created,
                   push_tasks_created, calls, raised>>
    /\ UNCHANGED <<args, paths_listed, mon_vars>>

Next ==
    \/ SchedulerInit
    \/ mark_services_for_rebuild
    \/ create_tasks_begin
    \/ skip_service
    \/ create_build_task
    \/ create_push_task
    \/ create_tasks_end
    \/ main_finally

Spec == Init /\ [][Next]_vars

\* the invocation under every combination of the command-line options
SpecArgs == InitArgs /\ [][Next]_vars

\* ---- ReductionMonitor (grizzly_reduce_monitor/monitor.py) -------------
\* FuzzManagerReporter.QUAL_* and the literal of queue_reduction_task
QUAL_REDUCED == 0
QUAL_IN_PROGRESS == 4
QUAL_UNREDUCED == 5
QUAL_REQUEST_SPECIFIC == 6
QUAL_NOT_REPRODUCIBLE == 10
GENERIC_PLATFORM == "linux"
\* the keys of TC_QUEUES
TC_QUEUES == {"linux"}
OSNames == {"linux", "windows"}
\* tool, bucket and description of a crash, taken together
SigKeys == {"toolA:None:crash in f", "toolA:None:crash in g"}

\* a crash as CrashManager holds it; its id is its place in the listing order
CrashRows == [key : SigKeys, os : OSNames,
              quality : {QUAL_REDUCED, QUAL_UNREDUCED, QUAL_REQUEST_SPECIFIC}]

RECURSIVE CrashLists(_)
CrashLists(k) ==
    IF k = 0 THEN {<<>>}
    ELSE LET S == CrashLists(k - 1)
         IN  S \cup {Append(l, r) : l \in {x \in S : Len(x) = k - 1}, r \in CrashRows}

\* ReducibleCrash of crash i at the quality CrashManager reports now
ReducibleCrash(srv, q, i) ==
    [crash |-> i, key |-> srv[i].key, os |-> srv[i].os, quality |-> q[i]]

\* _fuzzmanager_get_crashes: crashes of quality 5 or 6, in listing order
RECURSIVE fuzzmanager_get_crashes(_, _, _)
fuzzmanager_get_crashes(srv, q, i) ==
    IF i > Len(srv) THEN <<>>
    ELSE (IF q[i] \in {QUAL_UNREDUCED, QUAL_REQUEST_SPECIFIC}
          THEN <<ReducibleCrash(srv, q, i)>>
          ELSE <<>>) \o fuzzmanager_get_crashes(srv, q, i + 1)

\* _get_unique_crashes: sig
Sig(r) == <<r.key, r.quality>>

\* a generator that takes every reduction for a new signature
is_new_sig_always(sig, sn) == TRUE

\* _get_unique_crashes: sig not in seen
is_new_sig(sig, sn) == sig \notin sn

\* position of sig in randomize_crashes, 0 when absent
RandomizeIdx(rc, sig) ==
    IF \E k \in 1..Len(rc) : rc[k].sig = sig
    THEN CHOOSE k \in 1..Len(rc) : rc[k].sig = sig
    ELSE 0

\* ReductionMonitor.run, first loop: the Q6 crashes without a queue of their own
RECURSIVE unqueueable(_, _, _)
unqueueable(srv, q, i) ==
    IF i > Len(srv) THEN <<>>
    ELSE (IF q[i] = QUAL_REQUEST_SPECIFIC
             /\ srv[i].os \notin (TC_QUEUES \ {GENERIC_PLATFORM})
          THEN <<i>>
          ELSE <<>>) \o unqueueable(srv, q, i + 1)

\* the set of elements of a sequence
Range(seq) == {seq[k] : k \in 1..Len(seq)}

\* a queue_reduction_task without its dry-run test
queue_returns_early_never(dry) == FALSE

\* ReductionMonitor.queue_reduction_task: if self.dry_run: return
queue_returns_early(dry) == dry

\* a queue_reduction_task that logs the createTask failure and carries on
marks_in_progress_always(ok) == TRUE

\* ReductionMonitor.queue_reduction_task: the Q4 update is reached only when
\* createTask did not raise TaskclusterFailure
marks_in_progress(ok) == ok

\* ReductionMonitor.run: no queue_reduction_task call for this reduction
NoQueue == "none"

\* a routing that looks at the platform only
os_name_of_by_platform(r) ==
    IF r.os \in TC_QUEUES THEN r.os ELSE NoQueue

\* ReductionMonitor.run: the queue a yielded reduction goes to, or none
os_name_of(r) ==
    IF r.quality = QUAL_UNREDUCED THEN GENERIC_PLATFORM
    ELSE IF r.os \in TC_QUEUES /\ r.os # GENERIC_PLATFORM THEN r.os
    ELSE NoQueue

\* no orion-decision invocation is part of a monitor run
SchedulerIdle ==
    /\ repo = [u \in Units |-> {}]
    /\ evt = [action |-> "github-push", branch |-> "dev", pull_request |-> None,
              commit |-> "c0ffee", force_rebuild |-> FALSE, changed_paths |-> {}]
    /\ pc = "idle"
    /\ dirty = {}
    /\ idx = 1
    /\ should_push = FALSE
    /\ build_tasks_created = 0
    /\ push_tasks_created = 0
    /\ calls = <<>>
    /\ raised = "none"
    /\ cleanups = 0
    /\ status = -1
    /\ paths_listed = 0
    /\ args = DefaultArgs

\* ReductionMonitor(dry_run, tool_list) constructed, CrashManager as found
MonitorInit ==
    /\ SchedulerIdle
    /\ mon_pc = "start"
    /\ dry_run \in BOOLEAN
    /\ server \in CrashLists(MaxCrashes)
    /\ quality = [i \in 1..Len(server) |-> server[i].quality]
    /\ listing = <<>>
    /\ pos = 1
    /\ seen = {}
    /\ randomize_crashes = <<>>
    /\ yielded = <<>>
    /\ tc_calls = <<>>
    /\ updates = <<>>

\* ReductionMonitor.run, first loop: move the Q6 crashes without a queue to Q10
run_mark_unqueueable ==
    /\ mon_pc = "start"
    /\ LET hit == unqueueable(server, quality, 1) IN
       IF dry_run
       THEN UNCHANGED <<quality, updates>>
       ELSE /\ quality' = [i \in 1..Len(server) |->
                              IF i \in Range(hit)
                              THEN QUAL_NOT_REPRODUCIBLE
                              ELSE quality[i]]
            /\ updates' = updates \o
                   [k \in 1..Len(hit) |->
                       [crash |-> hit[k], quality |-> QUAL_NOT_REPRODUCIBLE]]
    /\ mon_pc' = "poll"
    /\ UNCHANGED <<dry_run, server, listing, pos, seen, randomize_crashes,
                   yielded, tc_calls>>
    /\ UNCHANGED sched_vars

\* _get_unique_crashes starts: _fuzzmanager_get_crashes queries CrashManager
get_unique_crashes_begin ==
    /\ mon_pc = "poll"
    /\ listing' = fuzzmanager_get_crashes(server, quality, 1)
    /\ pos' = 1
    /\ seen' = {}
    /\ randomize_crashes' = <<>>
    /\ mon_pc' = "scan"
    /\ UNCHANGED <<dry_run, server, quality, yielded, tc_calls, updates>>
    /\ UNCHANGED sched_vars

\* _get_unique_crashes, first loop: one reduction of the listing
get_unique_crashes_scan ==
    /\ mon_pc = "scan"
    /\ pos <= Len(listing)
    /\ LET r == listing[pos]
           sig == Sig(r)
           k == RandomizeIdx(randomize_crashes, sig)
       IN  IF is_new_sig(sig, seen)
           THEN /\ seen' = seen \cup {sig}
                /\ \E randomize \in BOOLEAN :
                      IF randomize
                      THEN /\ randomize_crashes' =
                                 Append(randomize_crashes,
                                        [sig |-> sig, reductions |-> <<r>>])
                           /\ mon_pc' = "scan"
                           /\ yielded' = yielded
                      ELSE /\ randomize_crashes' = randomize_crashes
                           /\ mon_pc' = "body"
                           /\ yielded' = Append(yielded,
                                               [sig |-> sig, reduction |-> r])
           ELSE /\ seen' = seen
                /\ mon_pc' = "scan"
                /\ yielded' = yielded
                /\ randomize_crashes' =
                      IF k # 0
                      THEN [randomize_crashes EXCEPT
                               ![k].reductions = Append(@, r)]
                      ELSE randomize_crashes
    /\ pos' = pos + 1
    /\ UNCHANGED <<dry_run, server, quality, listing, tc_calls, updates>>
    /\ UNCHANGED sched_vars

\* _get_unique_crashes, second loop: choice() among the saved reductions
get_unique_crashes_pick ==
    /\ mon_pc = "scan"
    /\ pos > Len(listing)
    /\ pos <= Len(listing) + Len(randomize_crashes)
    /\ LET e == randomize_crashes[pos - Len(listing)] IN
       \E c \in 1..Len(e.reductions) :
          yielded' = Append(yielded,
                            [sig |-> e.sig, reduction |-> e.reductions[c]])
    /\ mon_pc' = "body"
    /\ pos' = pos + 1
    /\ UNCHANGED <<dry_run, server, quality, listing, seen, randomize_crashes,
                   tc_calls, updates>>
    /\ UNCHANGED sched_vars

\* ReductionMonitor.run, loop body with a queue: queue_reduction_task
run_queue_reduction_task ==
    /\ mon_pc = "body"
    /\ LET r == yielded[Len(yielded)].reduction IN
       /\ os_name_of(r) # NoQueue
       /\ IF queue_returns_early(dry_run)
          THEN UNCHANGED <<tc_calls, updates, quality>>
          ELSE \E ok \in BOOLEAN :
                  /\ tc_calls' = Append(tc_calls,
                         [crash |-> r.crash, os_name |-> os_name_of(r),
                          ok |-> ok])
                  /\ IF marks_in_progress(ok)
                     THEN /\ updates' = Append(updates,
                                 [crash |-> r.crash,
                                  quality |-> QUAL_IN_PROGRESS])
                          /\ quality' = [quality EXCEPT
                                            ![r.crash] = QUAL_IN_PROGRESS]
                     ELSE UNCHANGED <<updates, quality>>
    /\ mon_pc' = "scan"
    /\ UNCHANGED <<dry_run, server, listing, pos, seen, randomize_crashes,
                   yielded>>
    /\ UNCHANGED sched_vars

\* ReductionMonitor.run, loop body without a queue: move the crash to Q10
run_not_reproducible ==
    /\ mon_pc = "body"
    /\ LET r == yielded[Len(yielded)].reduction IN
       /\ os_name_of(r) = NoQueue
       /\ IF dry_run
          THEN UNCHANGED <<updates, quality>>
          ELSE /\ updates' = Append(updates,
                      [crash |-> r.crash, quality |-> QUAL_NOT_REPRODUCIBLE])
               /\ quality' = [quality EXCEPT
                                 ![r.crash] = QUAL_NOT_REPRODUCIBLE]
    /\ mon_pc' = "scan"
    /\ UNCHANGED <<dry_run, server, listing, pos, seen, randomize_crashes,
                   yielded, tc_calls>>
    /\ UNCHANGED sched_vars

\* ReductionMonitor.run: the generator is exhausted, return 0
run_finish ==
    /\ mon_pc = "scan"
    /\ pos > Len(listing) + Len(randomize_crashes)
    /\ mon_pc' = "done"
    /\ UNCHANGED <<dry_run, server, quality, listing, pos, seen,
                   randomize_crashes, yielded, tc_calls, updates>>
    /\ UNCHANGED sched_vars

MonitorNext ==
    \/ run_mark_unqueueable
    \/ get_unique_crashes_begin
    \/ get_unique_crashes_scan
    \/ get_unique_crashes_pick
    \/ run_queue_reduction_task
    \/ run_not_reproducible
    \/ run_finish

MonitorSpec == MonitorInit /\ [][MonitorNext]_vars

\* ---- vocabulary of the properties -------------------------------------
\* the units a unit transitively depends on, along the edges of deps
RECURSIVE Closure(_, _)
Closure(deps, S) ==
    LET S1 == S \cup UNION {deps[u] \cap Units : u \in S}
    IN  IF S1 = S THEN S ELSE Closure(deps, S1)

TransDeps(deps, u) == Closure(deps, deps[u] \cap Units)

\* mark_services_for_rebuild has returned
Marked == pc \notin {"start", "constructed"} /\ raised # "CatalogError"

\* units whose build context contains a changed path
Owners == UNION {unitsOwningPath(p) : p \in evt.changed_paths}

\* the planned task nodes of this invocation and their dependency edges
BuildNode(u) == <<"Build", u>>
PublishNode(u) == <<"Publish", u>>
TaskGraph ==
    {BuildNode(u) : u \in dirty}
        \cup (IF should_push THEN {PublishNode(u) : u \in dirty} ELSE {})
DirtyDeps == [u \in Units |-> repo[u] \cap dirty]
\* node n depends, directly or transitively, on node m
Downstream(n, m) ==
    /\ m[1] = "Build"
    /\ \/ m[2] \in TransDeps(DirtyDeps, n[2])
       \/ n[1] = "Publish" /\ m[2] = n[2]
NodeOf(c) == <<c.kind, c.unit>>
CallIdx == 1..Len(calls)
HasFailedCall == \E i \in CallIdx : ~calls[i].ok
Attempted(n) == \E i \in CallIdx : NodeOf(calls[i]) = n
Accepted(n) == \E i \in CallIdx : NodeOf(calls[i]) = n /\ calls[i].ok
BuildCallsOf(u) == {i \in CallIdx : calls[i].kind = "Build" /\ calls[i].unit = u}
PublishCallsOf(u) == {i \in CallIdx : calls[i].kind = "Publish" /\ calls[i].unit = u}

\* C1: whenever a creation call is attempted, every task identifier in its
\* dependency list belongs to a task whose creation call was made earlier
\* and was accepted by the queue.
C1_AcceptedBeforeDependent ==
    \A i \in CallIdx : \A d \in calls[i].dependencies :
        \E j \in 1..(i - 1) : calls[j].id = d /\ calls[j].ok

\* C2: when the creation call of a node fails, no creation call is made, at
\* any point of the run, for a node that directly or transitively depends
\* on the failed node.
C2_NoCallDownstreamOfFailure ==
    \A i \in CallIdx : ~calls[i].ok =>
        \A j \in CallIdx : ~Downstream(NodeOf(calls[j]), NodeOf(calls[i]))

C4_StatusZeroIffAllSubmitted ==
    pc = "done" =>
        /\ status = 0 <=> (LoadOk(repo) /\ \A n \in TaskGraph : Accepted(n))
        /\ HasFailedCall => status # 0

\* a failed run in which another node had been created successfully
C4_Witness ==
    /\ pc = "done"
    /\ status # 0
    /\ HasFailedCall
    /\ \E i \in CallIdx : calls[i].ok

\* C5: after marking without force-rebuild, every unit that owns a changed
\* path is dirty and every unit that transitively depends on a dirty unit
\* is dirty.
C5_DirtyClosedUnderDependents ==
    (Marked /\ ~evt.force_rebuild) =>
        /\ Owners \subseteq dirty
        /\ \A v \in Units : TransDeps(repo, v) \cap dirty # {} => v \in dirty

\* the chain 1 <- 2 <- 3 with a change in the context of 1 only
C5_Witness ==
    /\ Marked /\ ~evt.force_rebuild
    /\ repo = [u \in Units |-> IF u \in {2, 3} THEN {u - 1} ELSE {}]
    /\ evt.changed_paths = {1}
    /\ {1, 2, 3} \subseteq dirty

\* C6: after marking without force-rebuild, a unit is dirty only if it owns
\* a changed path or transitively depends on a unit that owns one; changed
\* paths outside every context dirty nothing.
C6_DirtyOnlyOwnersAndDependents ==
    (Marked /\ ~evt.force_rebuild) =>
        /\ \A u \in dirty :
              u \in Owners \/ TransDeps(repo, u) \cap Owners # {}
        /\ evt.changed_paths \subseteq {Outside} => dirty = {}

\* the chain 1 <- 2 <- 3 with a change in the context of 3 only: one Build
\* task without dependencies
C6_Witness ==
    /\ pc = "done" /\ status = 0 /\ ~evt.force_rebuild
    /\ repo[2] = {1} /\ repo[3] = {2}
    /\ evt.changed_paths = {3}
    /\ dirty = {3}
    /\ Len(calls) = 1
    /\ calls[1].kind = "Build" /\ calls[1].unit = 3
    /\ calls[1].dependencies = {}

\* C7: running the propagator again on the marked catalog, with the same
\* changed paths or with none, changes no dirty flag.
C7_PropagationIdempotent ==
    Marked =>
        /\ mark_changed_dirty(repo, dirty, evt.changed_paths) = dirty
        /\ mark_changed_dirty(repo, dirty, {}) = dirty

\* a marked catalog in which propagation dirtied units beyond the owners
C7_Witness ==
    /\ Marked /\ ~evt.force_rebuild
    /\ Owners # {}
    /\ dirty \ Owners # {}
    /\ dirty # Units

\* C8: the dependency list of the Build task of a dirty unit holds the Build
\* task identifier of each of its dirty dependencies and nothing else, and
\* every dirty unit of a run that completed has a Build task.
C8_BuildDepsAreDirtyDeps ==
    /\ \A i \in CallIdx : calls[i].kind = "Build" =>
          LET u == calls[i].unit IN
          /\ u \in dirty
          /\ \A v \in repo[u] :
                v \in dirty <=> service_build_tasks(v) \in calls[i].dependencies
          /\ \A d \in calls[i].dependencies :
                \E v \in repo[u] : d = service_build_tasks(v)
    /\ (pc = "done" /\ status = 0) => \A u \in dirty : BuildCallsOf(u) # {}

\* a Build task of a unit with one dirty and one non-dirty dependency: its
\* dependency list names the first and not the second
C8_Witness ==
    \E i \in CallIdx :
        /\ calls[i].kind = "Build"
        /\ calls[i].dependencies # {}
        /\ repo[calls[i].unit] \ dirty # {}
        /\ Cardinality(calls[i].dependencies) < Cardinality(repo[calls[i].unit])

\* C9: a unit never gets more than one Build or Publish task; a Publish
\* task depends on exactly the Build task of its unit, created before it;
\* without should_push there is no Publish task; in a run that completed
\* every dirty unit has its Build task and, with should_push, its Publish
\* task.
C9_OneBuildOnePublish ==
    /\ \A u \in Units :
          /\ Cardinality(BuildCallsOf(u)) <= 1
          /\ Cardinality(PublishCallsOf(u)) <= 1
          /\ \A i \in PublishCallsOf(u) :
                /\ u \in dirty
                /\ should_push
                /\ \E j \in BuildCallsOf(u) :
                      j < i /\ calls[i].dependencies = {calls[j].id}
    /\ ~should_push => \A i \in CallIdx : calls[i].kind # "Publish"
    /\ (pc = "done" /\ status = 0) =>
          \A u \in dirty :
              /\ Cardinality(BuildCallsOf(u)) = 1
              /\ should_push => Cardinality(PublishCallsOf(u)) = 1

\* a completed publishing run over at least two dirty units
C9_Witness ==
    /\ pc = "done" /\ status = 0
    /\ should_push
    /\ Cardinality(dirty) >= 2
    /\ \A u \in dirty : PublishCallsOf(u) # {}

\* C10: a Publish task is created only for a push event whose branch is the
\* configured publish branch.
C10_PublishOnlyOnPushToPublishBranch ==
    \A i \in CallIdx : calls[i].kind = "Publish" =>
        (evt.action = "github-push" /\ evt.branch = push_branch)

\* C11: without force-rebuild and without a changed path inside any unit's
\* context no unit is dirty, no creation call is made, and an invocation
\* whose catalog loaded ends with status 0.
C11_NothingChangedNothingSubmitted ==
    (~evt.force_rebuild /\ Owners = {}) =>
        /\ calls = <<>>
        /\ Marked => dirty = {}
        /\ (pc = "done" /\ LoadOk(repo)) => status = 0

\* a finished run over a catalog with dependencies whose only changed path
\* lies outside every context
C11_Witness ==
    /\ pc = "done" /\ status = 0
    /\ ~evt.force_rebuild
    /\ evt.changed_paths = {Outside}
    /\ \E u \in Units : repo[u] # {}
    /\ calls = <<>>

\* C12: with the force-rebuild marker every unit is dirty after marking,
\* whatever the changed paths, and list_changed_paths() is never called.
C12_ForceRebuildMarksAll ==
    (Marked /\ evt.force_rebuild) =>
        /\ dirty = Units
        /\ paths_listed = 0

\* a forced run whose changed path alone would have dirtied nothing
C12_Witness ==
    /\ pc = "done" /\ status = 0
    /\ evt.force_rebuild
    /\ evt.changed_paths = {Outside}
    /\ dirty = Units
    /\ Len(calls) >= NumUnits

\* a dangling dependency name or a dependency cycle in the catalog
Malformed(deps) ==
    \/ \E u \in Units : deps[u] \ Units # {}
    \/ \E u \in Units : u \in TransDeps(deps, u)

\* C13: constructing the catalog fails with CatalogError exactly when the
\* dependency relation has a cycle or names a unit that does not exist.
C13_LoadFailsIffMalformed ==
    pc \notin {"start", "idle"} =>
        (raised = "CatalogError" <=> Malformed(repo))

\* the cycle 1 -> 2 -> 1 was rejected
C13_Witness ==
    /\ pc = "done"
    /\ raised = "CatalogError"
    /\ repo[1] = {2} /\ repo[2] = {1}

\* C14: a run that ends with CatalogError or ConfigurationError has made no
\* creation call and does not return status 0.
C14_FatalErrorFailsClosed ==
    raised \in {"CatalogError", "ConfigurationError"} =>
        /\ calls = <<>>
        /\ dirty = {}
        /\ pc = "done" => status # 0

\* a forced rebuild over a catalog with a dangling dependency ended in
\* CatalogError
C14_Witness ==
    /\ pc = "done"
    /\ raised = "CatalogError"
    /\ evt.force_rebuild
    /\ \E u \in Units : Dangling \in repo[u]
    /\ status # 0

\* C15: when publishing is required and the credential reference is missing
\* the invocation fails with ConfigurationError and submits nothing.
C15_MissingSecretFailsClosed ==
    (args.docker_hub_secret = None /\ ShouldPush(evt)) =>
        /\ calls = <<>>
        /\ pc = "done" => raised = "ConfigurationError"

\* C16: every creation call is for a dirty unit, and every identifier in a
\* dependency list is the Build task identifier of a dirty unit.
C16_NonDirtyUnitsAbsent ==
    \A i \in CallIdx :
        /\ calls[i].unit \in dirty
        /\ \A d \in calls[i].dependencies :
              /\ \E u \in dirty : d = service_build_tasks(u)
              /\ \A u \in Units \ dirty : d # service_build_tasks(u)

\* a completed run that submitted a task for a unit one of whose declared
\* dependencies is not dirty
C16_Witness ==
    /\ pc = "done" /\ status = 0
    /\ dirty # Units
    /\ \E i \in CallIdx : repo[calls[i].unit] \ dirty # {}
    /\ \A u \in Units \ dirty : BuildCallsOf(u) = {} /\ PublishCallsOf(u) = {}

IsPullRequest == evt.action = "github-pull-request"

\* C17 (as claimed): the index routes of a Build task are keyed by unit and
\* commit for push and release events and by unit and pull-request number
\* for pull-request events, and by nothing else.
C17_RoutesByKindOnly ==
    \A i \in CallIdx : calls[i].kind = "Build" =>
        calls[i].routes =
            IF IsPullRequest
            THEN {<<calls[i].unit, "pull_request", evt.pull_request>>}
            ELSE {<<calls[i].unit, "rev", evt.commit>>}

\* C17 (amended): every Build task carries a route keyed by unit and commit,
\* whatever the event, and a second route keyed by unit and pull-request
\* number for a pull-request event and by unit and branch otherwise.
C17_BuildRoutes ==
    \A i \in CallIdx : calls[i].kind = "Build" =>
        calls[i].routes =
            {<<calls[i].unit, "rev", evt.commit>>,
             IF IsPullRequest
             THEN <<calls[i].unit, "pull_request", evt.pull_request>>
             ELSE <<calls[i].unit, "branch", evt.branch>>}

\* a Build task of a pull-request event
C17_Witness ==
    /\ IsPullRequest
    /\ \E i \in CallIdx : calls[i].kind = "Build" /\ calls[i].ok

\* C18: with --dry-run no creation call is made.
C18_DryRunQueuesNothing ==
    args.dry_run => calls = <<>>

\* C19: a monitor constructed with dry_run makes no createTask call and no
\* update_testcase_quality call, and leaves every quality as it found it.
C19_DryRunChangesNothing ==
    dry_run =>
        /\ tc_calls = <<>>
        /\ updates = <<>>
        /\ \A i \in 1..Len(server) : quality[i] = server[i].quality

\* a finished dry run that listed an unreduced and a request-specific crash
C19_Witness ==
    /\ mon_pc = "done"
    /\ dry_run
    /\ \E j \in 1..Len(yielded) : yielded[j].reduction.quality = QUAL_UNREDUCED
    /\ \E j \in 1..Len(yielded) :
          yielded[j].reduction.quality = QUAL_REQUEST_SPECIFIC

\* C20: no signature is yielded twice, every yielded reduction comes from
\* the listing and carries the signature it is yielded for, and when the
\* generator is exhausted every signature of the listing has been yielded.
C20_OnePerSignature ==
    /\ \A i, j \in 1..Len(yielded) :
          yielded[i].sig = yielded[j].sig => i = j
    /\ \A j \in 1..Len(yielded) :
          /\ yielded[j].reduction \in Range(listing)
          /\ Sig(yielded[j].reduction) = yielded[j].sig
    /\ mon_pc = "done" =>
          \A r \in Range(listing) :
              \E j \in 1..Len(yielded) : yielded[j].sig = Sig(r)

\* two crashes share a signature and the random choice took the second
C20_Witness ==
    /\ mon_pc = "done"
    /\ Len(listing) = 2
    /\ Sig(listing[1]) = Sig(listing[2])
    /\ Len(yielded) = 1
    /\ yielded[1].reduction = listing[2]

\* the longest chain of dependency edges below a unit, and in the catalog
RECURSIVE DepthOf(_, _)
DepthOf(deps, u) ==
    LET below == {DepthOf(deps, v) : v \in deps[u] \cap Units}
    IN  IF below = {} THEN 0
        ELSE 1 + CHOOSE m \in below : \A n \in below : n <= m
GraphDepth(deps) ==
    LET all == {DepthOf(deps, u) : u \in Units}
    IN  CHOOSE m \in all : \A n \in all : n <= m

\* C21: on a loaded catalog the propagator reaches a pass that changes
\* nothing after at most (dependency-graph depth + 1) passes, every pass
\* keeps the units already dirty, and the flags it leaves are a fixed point.
C21_PropagationTerminates ==
    (Marked /\ ~evt.force_rebuild) =>
        /\ PropagatePasses(repo, Owners) <= GraphDepth(repo) + 1
        /\ Owners \subseteq Scan(repo, services_values, Owners)
        /\ dirty \subseteq Scan(repo, services_values, dirty)
        /\ Propagate(repo, Owners) = dirty
        /\ Scan(repo, services_values, dirty) = dirty

\* the chain 1 -> 2 -> 3 with a change in the context of 3: the scan in
\* name order needs depth + 1 = 3 passes
C21_Witness ==
    /\ Marked /\ ~evt.force_rebuild
    /\ repo[1] = {2} /\ repo[2] = {3}
    /\ evt.changed_paths = {3}
    /\ dirty = {1, 2, 3}
    /\ PropagatePasses(repo, Owners) = 3
    /\ GraphDepth(repo) = 2

\* C22: a Publish call comes after an accepted Build call of the same unit;
\* a unit whose Build call failed has no Publish call; the counters count
\* the accepted Build and Publish calls and nothing else.
C22_PublishAfterAcceptedBuild ==
    /\ \A i \in CallIdx : calls[i].kind = "Publish" =>
          \E j \in 1..(i - 1) :
              /\ calls[j].kind = "Build"
              /\ calls[j].unit = calls[i].unit
              /\ calls[j].ok
    /\ \A i \in CallIdx : (calls[i].kind = "Build" /\ ~calls[i].ok) =>
          PublishCallsOf(calls[i].unit) = {}
    /\ build_tasks_created =
          Cardinality({i \in CallIdx : calls[i].kind = "Build" /\ calls[i].ok})
    /\ push_tasks_created =
          Cardinality({i \in CallIdx : calls[i].kind = "Publish" /\ calls[i].ok})

\* one unit was built and published, the Build call of the next one failed
C22_Witness ==
    /\ pc = "done"
    /\ should_push
    /\ Len(calls) = 3
    /\ calls[1].ok /\ calls[2].ok /\ calls[2].kind = "Publish"
    /\ calls[3].kind = "Build" /\ ~calls[3].ok
    /\ build_tasks_created = 1 /\ push_tasks_created = 1

\* the calls and quality updates made for a crash
QueuedCalls(c) == {i \in 1..Len(tc_calls) : tc_calls[i].crash = c}
UpdatesTo(c, q) ==
    {i \in 1..Len(updates) : updates[i].crash = c /\ updates[i].quality = q}
\* the yielded reductions whose loop body has run
Processed ==
    {k \in 1..Len(yielded) : k < Len(yielded) \/ mon_pc # "body"}
\* a platform with a queue of its own
HasOwnQueue(os) == os \in TC_QUEUES /\ os # GENERIC_PLATFORM

\* C23: a crash is at quality 4 only with an accepted createTask call for
\* it; after a failed createTask the crash keeps the quality it was listed
\* with, and every later reduction of the run is still handled.
C23_InProgressOnlyAfterCreated ==
    /\ \A c \in 1..Len(server) :
          (UpdatesTo(c, QUAL_IN_PROGRESS) # {} \/ quality[c] = QUAL_IN_PROGRESS)
             => \E i \in QueuedCalls(c) : tc_calls[i].ok
    /\ \A i \in 1..Len(tc_calls) : ~tc_calls[i].ok =>
          /\ UpdatesTo(tc_calls[i].crash, QUAL_IN_PROGRESS) = {}
          /\ quality[tc_calls[i].crash] = server[tc_calls[i].crash].quality
    /\ (mon_pc = "done" /\ ~dry_run) =>
          /\ pos > Len(listing) + Len(randomize_crashes)
          /\ \A k \in 1..Len(yielded) :
                os_name_of(yielded[k].reduction) # NoQueue =>
                   QueuedCalls(yielded[k].reduction.crash) # {}

\* createTask failed for one crash and the next one was queued and marked
C23_Witness ==
    /\ mon_pc = "done" /\ ~dry_run
    /\ Len(tc_calls) = 2
    /\ ~tc_calls[1].ok /\ tc_calls[2].ok
    /\ quality[tc_calls[1].crash] = QUAL_UNREDUCED
    /\ quality[tc_calls[2].crash] = QUAL_IN_PROGRESS

C25_CleanupOnceOnEveryExit ==
    /\ pc = "done" => /\ cleanups = 1
                      /\ status = 0 <=> raised = "none"
    /\ pc # "done" => cleanups = 0

\* a Publish call failed after an accepted Build call: cleanup ran, status 1
C25_Witness ==
    /\ pc = "done"
    /\ raised = "TaskclusterFailure"
    /\ Len(calls) = 2
    /\ calls[2].kind = "Publish" /\ ~calls[2].ok
    /\ cleanups = 1
    /\ status # 0

====
